---- MODULE Spec2Model ----
(***************************************************************************)
(* kube-fuse: a read-only FUSE filesystem that projects the namespaces and *)
(* configmaps of a cluster onto an in-memory inode table                   *)
(* (src/src/kubefuse.rs).  The table is built by `init`; afterwards the    *)
(* protocol handlers lookup/getattr/readdir/read/open/release read it.     *)
(***************************************************************************)
EXTENDS Integers, Sequences, FiniteSets, TLC

VARIABLES
    inodes,         \* KubeFilesystem.inodes: InodeTable, inode -> Node
    inode_counter,  \* KubeFilesystem.inode_counter: AtomicU64
    allocated,      \* history: the calls of next_inode so far, [caller, ino] in order
    hasher,         \* the hash state that fixes the iteration order of the HashMaps
    upstream,       \* what the cluster answers to the list requests of this mount
    pc,             \* position of the mount: "new", "loop" (inside init), "mounted"
    idx,            \* init's position in the namespace list (1-based)
    initResult,     \* what init returned: NotReturned, Ok(<<>>) or Err("EIO")
    lastCall,       \* the protocol call handled last
    replies,        \* the replies that call sent, in order
    chain           \* the readdir enumeration in progress

vars == <<inodes, inode_counter, allocated, hasher, upstream, pc, idx, initResult,
          lastCall, replies, chain>>

-----------------------------------------------------------------------------
(* Bounds of the model. *)

\* The cluster holds at most this many objects (namespaces and configmaps
\* together) when only the tree builder runs.
MaxObjects == 4

\* The cluster holds at most this many objects when the protocol handlers
\* run on the mounted tree.
MaxMountedObjects == 2

\* Largest offset, read size and directory-buffer capacity (in entries) the
\* protocol calls are issued with.
MaxOffset == 4
MaxSize == 2
MaxCapacity == 4

\* Number of tasks that call the inode allocator beside init, and the number
\* of calls they make together.
MaxTasks == 2
MaxAllocations == 2

\* The caller of next_inode that is init itself; the tasks are 1..MaxTasks.
InitTask == 0

-----------------------------------------------------------------------------
(* Option and Result values. *)

None == [some |-> FALSE]
Some(v) == [some |-> TRUE, val |-> v]

Ok(v) == [ok |-> TRUE, val |-> v]
Err(e) == [ok |-> FALSE, err |-> e]

RECURSIVE SeqsUpTo(_, _)
\* All sequences over S of length at most n.
SeqsUpTo(S, n) ==
    IF n <= 0 THEN {<<>>}
    ELSE LET shorter == SeqsUpTo(S, n - 1)
         IN  shorter \cup {Append(s, x) : s \in {t \in shorter : Len(t) = n - 1}, x \in S}

-----------------------------------------------------------------------------
(* Program constants. *)

BLOCK_SIZE == 512
UNIX_EPOCH == 0
TTL == 1

ROOT_ATTR ==
    [ino |-> 1, size |-> 0, blocks |-> 0,
     atime |-> UNIX_EPOCH, mtime |-> UNIX_EPOCH, ctime |-> UNIX_EPOCH, crtime |-> UNIX_EPOCH,
     kind |-> "Directory", perm |-> 493, nlink |-> 2,
     uid |-> 1000, gid |-> 1000, rdev |-> 0, flags |-> 0, blksize |-> BLOCK_SIZE]

-----------------------------------------------------------------------------
(* The cluster's objects.  An object carries its metadata (name and        *)
(* creation timestamp, both optional), the rest of its fields as `data`,   *)
(* and whether the YAML encoder accepts it.                                *)

Fill(n, b) == [i \in 1..n |-> b]

NsDefault ==
    [metadata |-> [name |-> Some("default"), creation_timestamp |-> Some(5)],
     data |-> <<1, 2>>, encodable |-> TRUE]
NsKubeSystem ==
    [metadata |-> [name |-> Some("kube-system"), creation_timestamp |-> Some(-1)],
     data |-> Fill(BLOCK_SIZE, 7), encodable |-> TRUE]
NsNameless ==
    [metadata |-> [name |-> None, creation_timestamp |-> None],
     data |-> <<9>>, encodable |-> TRUE]
NsPlain ==
    [metadata |-> [name |-> Some("kube-system"), creation_timestamp |-> None],
     data |-> <<8>>, encodable |-> TRUE]

CmCfg1 ==
    [metadata |-> [name |-> Some("cfg1"), creation_timestamp |-> Some(7)],
     data |-> <<3, 4, 5>>, encodable |-> TRUE]
CmCfg2 ==
    [metadata |-> [name |-> Some("cfg2"), creation_timestamp |-> None],
     data |-> <<6>>, encodable |-> FALSE]
CmNameless ==
    [metadata |-> [name |-> None, creation_timestamp |-> Some(3)],
     data |-> <<>>, encodable |-> TRUE]

NamespaceObjects == {NsDefault, NsKubeSystem, NsNameless}
MountedNamespaceObjects == {NsDefault, NsPlain}
ConfigMapObjects == {CmCfg1, CmCfg2, CmNameless}

\* The answer to a configmap list request that init never issues (the
\* namespace has no name).
NotRequested == Err("not requested")

CmResponses(cms, budget) ==
    {Err("connect")} \cup {Ok(l) : l \in SeqsUpTo(cms, budget)}

Cost(resp) == IF resp.ok THEN Len(resp.val) ELSE 0

RECURSIVE CmAssignments(_, _, _)
\* The answers to the configmap list requests of the namespaces in nsList,
\* position by position, holding at most budget configmaps in all.
CmAssignments(nsList, cms, budget) ==
    IF nsList = <<>> THEN {<<>>}
    ELSE IF ~Head(nsList).metadata.name.some
    THEN {<<NotRequested>> \o rest : rest \in CmAssignments(Tail(nsList), cms, budget)}
    ELSE UNION {{<<r>> \o rest : rest \in CmAssignments(Tail(nsList), cms, budget - Cost(r))}
                    : r \in CmResponses(cms, budget)}

\* Every cluster of at most n objects: the answer to the namespace list
\* request and, for each namespace of the list, the answer to its configmap
\* list request.
Upstreams(nss, cms, n) ==
    {[namespaces |-> Err("connect"), configmaps |-> <<>>]}
    \cup UNION {{[namespaces |-> Ok(nsList), configmaps |-> c]
                    : c \in CmAssignments(nsList, cms, n - Len(nsList))}
                : nsList \in SeqsUpTo(nss, n)}

HashSeeds == {0, 1}

-----------------------------------------------------------------------------
(* Content synthesis. *)

\* serde_yaml::to_string: the document is the encoding of the metadata
\* followed by the encoding of the other fields; an object the encoder
\* rejects yields an error.
NameBytes(name) ==
    IF ~name.some THEN <<>>
    ELSE CASE name.val = "default" -> <<100>>
           [] name.val = "kube-system" -> <<107>>
           [] name.val = "cfg1" -> <<99, 49>>
           [] name.val = "cfg2" -> <<99, 50>>
           [] OTHER -> <<63>>

serde_yaml_to_string(obj) ==
    IF obj.encodable
    THEN Ok(NameBytes(obj.metadata.name) \o obj.data)
    ELSE Err("serialize")

unwrap_or_default(result) == IF result.ok THEN result.val ELSE <<>>

\* Mutant of div_ceil: the division rounds down.
div_floor(a, b) == a \div b

\* u64::div_ceil
div_ceil(a, b) == (a \div b) + (IF a % b = 0 THEN 0 ELSE 1)

\* creation_timestamp -> SystemTime: the seconds must fit a u64, otherwise
\* (or when the timestamp is absent) the epoch.
creation_time(obj) ==
    LET ts == obj.metadata.creation_timestamp
    IN  IF ts.some /\ ts.val >= 0 THEN UNIX_EPOCH + ts.val ELSE UNIX_EPOCH

\* SystemTime::now() at mount time.
SystemTimes == {1000}

-----------------------------------------------------------------------------
(* Node and inode table. *)

Bytes(b) == [tag |-> "Bytes", bytes |-> b]
Children(c) == [tag |-> "Children", children |-> c]

\* NodeChildren::new()
NewChildren == [n \in {} |-> 0]

\* HashMap::insert: stores or replaces.
MapInsert(m, k, v) == [x \in DOMAIN m \cup {k} |-> IF x = k THEN v ELSE m[x]]

\* HashMap::get
MapGet(m, k) == IF k \in DOMAIN m THEN Some(m[k]) ELSE None

Node(name, attrs, content) == [name |-> name, attrs |-> attrs, content |-> content]

DirAttr(ino, time) ==
    [ino |-> ino, size |-> 0, blocks |-> 0,
     atime |-> time, mtime |-> time, ctime |-> time, crtime |-> time,
     kind |-> "Directory", perm |-> 493, nlink |-> 2,
     uid |-> 1000, gid |-> 1000, rdev |-> 0, flags |-> 0, blksize |-> BLOCK_SIZE]

Blocks(size) == div_ceil(size, BLOCK_SIZE)

\* Mutant of FileAttr: the attributes of a file say Directory.
FileAttr_directory_kind(ino, size, time) ==
    [ino |-> ino, size |-> size, blocks |-> div_ceil(size, BLOCK_SIZE),
     atime |-> time, mtime |-> time, ctime |-> time, crtime |-> time,
     kind |-> "Directory", perm |-> 292, nlink |-> 1,
     uid |-> 1000, gid |-> 1000, rdev |-> 0, flags |-> 0, blksize |-> BLOCK_SIZE]

FileAttr(ino, size, time) ==
    [ino |-> ino, size |-> size, blocks |-> Blocks(size),
     atime |-> time, mtime |-> time, ctime |-> time, crtime |-> time,
     kind |-> "RegularFile", perm |-> 292, nlink |-> 1,
     uid |-> 1000, gid |-> 1000, rdev |-> 0, flags |-> 0, blksize |-> BLOCK_SIZE]

-----------------------------------------------------------------------------
(* KubeFilesystem: the tree builder.  The builder operators take and       *)
(* return the record fs = [inodes, inode_counter, caller, allocated] they   *)
(* work on: the two fields of the struct, who calls, and the history of     *)
(* the allocator's calls.                                                   *)

\* Mutant of new: the counter starts at the root's inode.
new_counting_from_one ==
    [inodes |-> [i \in {} |-> 0], inode_counter |-> 1, caller |-> InitTask, allocated |-> <<>>]

\* KubeFilesystem::new
new == [inodes |-> [i \in {} |-> 0], inode_counter |-> 2, caller |-> InitTask, allocated |-> <<>>]

\* Mutant of next_inode: the counter is loaded and never incremented.
next_inode_load(fs) ==
    [ino |-> fs.inode_counter,
     fs |-> [fs EXCEPT !.allocated =
                Append(@, [caller |-> fs.caller, ino |-> fs.inode_counter])]]

\* next_inode: fetch_add(1, SeqCst) is one atomic step that returns the value
\* before the increment.  fs.caller names who calls; the call is appended to
\* the history fs.allocated.
next_inode(fs) ==
    [ino |-> fs.inode_counter,
     fs |-> [fs EXCEPT !.inode_counter = fs.inode_counter + 1,
                       !.allocated =
                           Append(@, [caller |-> fs.caller, ino |-> fs.inode_counter])]]

\* InodeTable::insert
insert(fs, ino, node) == [fs EXCEPT !.inodes = MapInsert(fs.inodes, ino, node)]

\* Mutant of create_namespace_node: the manifest's attributes carry the
\* namespace's inode.
create_namespace_node_manifest_ino(fs, inode, namespace) ==
    LET time == creation_time(namespace)
        alloc == next_inode(fs)
        manifest_ino == alloc.ino
        children == MapInsert(NewChildren, "manifest.yaml", manifest_ino)
        ns_node == Node(IF namespace.metadata.name.some
                          THEN namespace.metadata.name.val ELSE "",
                        DirAttr(inode, time), Children(children))
        fs1 == insert(alloc.fs, ns_node.attrs.ino, ns_node)
        ns_yaml == unwrap_or_default(serde_yaml_to_string(namespace))
        ns_yaml_size == Len(ns_yaml)
        manifest_node == Node("manifest.yaml",
                              FileAttr(inode, ns_yaml_size, time),
                              Bytes(ns_yaml))
    IN  insert(fs1, manifest_ino, manifest_node)

create_namespace_node(fs, inode, namespace) ==
    LET time == creation_time(namespace)
        alloc == next_inode(fs)
        manifest_ino == alloc.ino
        children == MapInsert(NewChildren, "manifest.yaml", manifest_ino)
        ns_node == Node(IF namespace.metadata.name.some
                          THEN namespace.metadata.name.val ELSE "",
                        DirAttr(inode, time), Children(children))
        fs1 == insert(alloc.fs, ns_node.attrs.ino, ns_node)
        ns_yaml == unwrap_or_default(serde_yaml_to_string(namespace))
        ns_yaml_size == Len(ns_yaml)
        manifest_node == Node("manifest.yaml",
                              FileAttr(manifest_ino, ns_yaml_size, time),
                              Bytes(ns_yaml))
    IN  insert(fs1, manifest_ino, manifest_node)

\* namespace_inode: the root's child of that name, if the root is a directory.
namespace_inode(fs, namespace) ==
    IF 1 \notin DOMAIN fs.inodes THEN None
    ELSE IF fs.inodes[1].content.tag = "Children"
    THEN MapGet(fs.inodes[1].content.children, namespace)
    ELSE None

\* namespace_children_mut: the inode whose children map the caller may
\* change, if the namespace is registered and is a directory.
namespace_children_mut(fs, namespace) ==
    LET ns_inode == namespace_inode(fs, namespace)
    IN  IF ~ns_inode.some THEN None
        ELSE IF ns_inode.val \notin DOMAIN fs.inodes THEN None
        ELSE IF fs.inodes[ns_inode.val].content.tag = "Children"
        THEN Some(ns_inode.val)
        ELSE None

RECURSIVE configmap_items_default_name(_, _, _)
\* Mutant of configmap_items: a configmap without a name is given the empty
\* name instead of being skipped.
configmap_items_default_name(st, items, i) ==
    IF i > Len(items) \/ st.returned THEN st
    ELSE LET item == items[i]
             name == (IF item.metadata.name.some THEN item.metadata.name.val ELSE "")
                     \o ".yaml"
             cm_yaml == unwrap_or_default(serde_yaml_to_string(item))
             alloc == next_inode(st.fs)
             cm_ino == alloc.ino
         IN  configmap_items_default_name(
                 [fs |-> insert(alloc.fs, cm_ino,
                                Node(name, FileAttr(cm_ino, Len(cm_yaml), creation_time(item)),
                                     Bytes(cm_yaml))),
                  cm_node |-> [st.cm_node EXCEPT !.content.children =
                                  MapInsert(@, name, cm_ino)],
                  returned |-> FALSE],
                 items, i + 1)

RECURSIVE configmap_items_bare_name(_, _, _)
\* Mutant of configmap_items: the file is registered under the configmap's
\* name without the .yaml suffix.
configmap_items_bare_name(st, items, i) ==
    IF i > Len(items) \/ st.returned THEN st
    ELSE LET item == items[i]
         IN  IF ~item.metadata.name.some
             THEN configmap_items_bare_name(st, items, i + 1)
             ELSE LET name == item.metadata.name.val
                      cm_yaml == unwrap_or_default(serde_yaml_to_string(item))
                      alloc == next_inode(st.fs)
                      cm_ino == alloc.ino
                  IN  configmap_items_bare_name(
                          [fs |-> insert(alloc.fs, cm_ino,
                                         Node(name,
                                              FileAttr(cm_ino, Len(cm_yaml), creation_time(item)),
                                              Bytes(cm_yaml))),
                           cm_node |-> [st.cm_node EXCEPT !.content.children =
                                           MapInsert(@, name, cm_ino)],
                           returned |-> FALSE],
                          items, i + 1)

RECURSIVE configmap_items(_, _, _)
\* The loop of create_configmaps_node over the listed configmaps.  st holds
\* fs, the configmaps node under construction, and whether the loop returned
\* from the function.
configmap_items(st, items, i) ==
    IF i > Len(items) \/ st.returned THEN st
    ELSE LET item == items[i]
         IN  IF ~item.metadata.name.some
             THEN configmap_items(st, items, i + 1)
             ELSE LET name == item.metadata.name.val \o ".yaml"
                      cm_yaml == unwrap_or_default(serde_yaml_to_string(item))
                      cm_yaml_size == Len(cm_yaml)
                      alloc == next_inode(st.fs)
                      cm_ino == alloc.ino
                      cm_creation_time == creation_time(item)
                  IN  IF st.cm_node.content.tag = "Children"
                      THEN configmap_items(
                               [fs |-> insert(alloc.fs, cm_ino,
                                              Node(name,
                                                   FileAttr(cm_ino, cm_yaml_size, cm_creation_time),
                                                   Bytes(cm_yaml))),
                                cm_node |-> [st.cm_node EXCEPT !.content.children =
                                                MapInsert(@, name, cm_ino)],
                                returned |-> FALSE],
                               items, i + 1)
                      ELSE [st EXCEPT !.fs = alloc.fs, !.returned = TRUE]

\* Mutant of create_configmaps_node: a failed list request returns before the
\* configmaps node is stored.
create_configmaps_node_unstored(fs, namespace, list, node_creation_time) ==
    LET alloc == next_inode(fs)
        configmaps_inode == alloc.ino
        ns_node_children == namespace_children_mut(alloc.fs, namespace)
    IN  IF ~ns_node_children.some THEN alloc.fs
        ELSE LET cm_node == Node("configmaps",
                                 DirAttr(configmaps_inode, node_creation_time),
                                 Children(NewChildren))
                 fs1 == [alloc.fs EXCEPT
                            !.inodes[ns_node_children.val].content.children =
                                MapInsert(@, "configmaps", configmaps_inode)]
             IN  IF ~list.ok THEN fs1
                 ELSE LET st == configmap_items([fs |-> fs1, cm_node |-> cm_node,
                                                 returned |-> FALSE], list.val, 1)
                      IN  IF st.returned THEN st.fs
                          ELSE insert(st.fs, configmaps_inode, st.cm_node)

\* create_configmaps_node, given the answer to the configmap list request
\* and the clock.
create_configmaps_node(fs, namespace, list, node_creation_time) ==
    LET alloc == next_inode(fs)
        configmaps_inode == alloc.ino
        ns_node_children == namespace_children_mut(alloc.fs, namespace)
    IN  IF ~ns_node_children.some THEN alloc.fs
        ELSE LET cm_node == Node("configmaps",
                                 DirAttr(configmaps_inode, node_creation_time),
                                 Children(NewChildren))
                 fs1 == [alloc.fs EXCEPT
                            !.inodes[ns_node_children.val].content.children =
                                MapInsert(@, "configmaps", configmaps_inode)]
                 st == IF list.ok
                       THEN configmap_items([fs |-> fs1, cm_node |-> cm_node,
                                             returned |-> FALSE], list.val, 1)
                       ELSE [fs |-> fs1, cm_node |-> cm_node, returned |-> FALSE]
             IN  IF st.returned THEN st.fs
                 ELSE insert(st.fs, configmaps_inode, st.cm_node)

\* Mutant of init_item: a failed configmap list request ends init with EIO.
init_item_fatal_list(fs, item, list, now) ==
    LET name == item.metadata.name.val
        alloc == next_inode(fs)
        ino == alloc.ino
        fs1 == create_namespace_node(alloc.fs, ino, item)
        fs2 == [fs1 EXCEPT !.inodes[1].content.children = MapInsert(@, name, ino),
                           !.inodes[1].attrs.nlink = @ + 1]
    IN  IF list.ok
        THEN [returned |-> None, fs |-> create_configmaps_node(fs2, name, list, now)]
        ELSE [returned |-> Some(Err("EIO")), fs |-> fs2]

\* Mutant of init_item: the root's link count is left alone.
init_item_no_link(fs, item, list, now) ==
    LET name == item.metadata.name.val
        alloc == next_inode(fs)
        ino == alloc.ino
        fs1 == create_namespace_node(alloc.fs, ino, item)
        fs2 == [fs1 EXCEPT !.inodes[1].content.children = MapInsert(@, name, ino)]
    IN  [returned |-> None, fs |-> create_configmaps_node(fs2, name, list, now)]

\* The body of init's loop for one named namespace: the result of init if the
\* body returns, and fs after it.
init_item(fs, item, list, now) ==
    LET name == item.metadata.name.val
        alloc == next_inode(fs)
        ino == alloc.ino
        fs1 == create_namespace_node(alloc.fs, ino, item)
    IN  IF 1 \in DOMAIN fs1.inodes
        THEN IF fs1.inodes[1].content.tag = "Children"
             THEN LET fs2 == [fs1 EXCEPT
                                 !.inodes[1].content.children = MapInsert(@, name, ino),
                                 !.inodes[1].attrs.nlink = @ + 1]
                  IN  [returned |-> None,
                       fs |-> create_configmaps_node(fs2, name, list, now)]
             ELSE [returned |-> Some(Err("EIO")), fs |-> fs1]
        ELSE [returned |-> None,
              fs |-> create_configmaps_node(fs1, name, list, now)]

-----------------------------------------------------------------------------
(* The mount. *)

NotReturned == [ok |-> FALSE, err |-> "not returned"]
NoCall == [op |-> "none"]
NoChain == [active |-> FALSE]

Fresh(ups) ==
    /\ inodes = new.inodes
    /\ inode_counter = new.inode_counter
    /\ allocated = new.allocated
    /\ hasher \in HashSeeds
    /\ upstream \in ups
    /\ pc = "new"
    /\ idx = 0
    /\ initResult = NotReturned
    /\ lastCall = NoCall
    /\ replies = <<>>
    /\ chain = NoChain

\* init, up to the answer to the namespace list request.
InitList ==
    /\ pc = "new"
    /\ inodes' = MapInsert(inodes, 1, Node("/", ROOT_ATTR, Children(NewChildren)))
    /\ IF upstream.namespaces.ok
       THEN /\ pc' = "loop"
            /\ idx' = 1
            /\ UNCHANGED initResult
       ELSE /\ pc' = "mounted"
            /\ initResult' = Err("EIO")
            /\ UNCHANGED idx
    /\ UNCHANGED <<inode_counter, allocated, hasher, upstream, lastCall, replies, chain>>

\* init, one pass of the loop over the namespaces.
InitNamespace ==
    /\ pc = "loop"
    /\ idx <= Len(upstream.namespaces.val)
    /\ LET item == upstream.namespaces.val[idx]
       IN  IF ~item.metadata.name.some
           THEN /\ idx' = idx + 1
                /\ UNCHANGED <<inodes, inode_counter, allocated, pc, initResult>>
           ELSE \E now \in SystemTimes :
                LET r == init_item([inodes |-> inodes, inode_counter |-> inode_counter,
                                    caller |-> InitTask, allocated |-> allocated],
                                   item, upstream.configmaps[idx], now)
                IN  /\ inodes' = r.fs.inodes
                    /\ inode_counter' = r.fs.inode_counter
                    /\ allocated' = r.fs.allocated
                    /\ IF r.returned.some
                       THEN /\ pc' = "mounted"
                            /\ initResult' = r.returned.val
                            /\ UNCHANGED idx
                       ELSE /\ idx' = idx + 1
                            /\ UNCHANGED <<pc, initResult>>
    /\ UNCHANGED <<hasher, upstream, lastCall, replies, chain>>

\* init, after the loop.
InitReturn ==
    /\ pc = "loop"
    /\ idx > Len(upstream.namespaces.val)
    /\ pc' = "mounted"
    /\ initResult' = Ok(<<>>)
    /\ UNCHANGED <<inodes, inode_counter, allocated, hasher, upstream, idx, lastCall,
                   replies, chain>>

-----------------------------------------------------------------------------
(* The protocol handlers.  A handler is called with a reply object and     *)
(* sends its replies through it; Replies below is what it sent, in order.  *)

ReplyError(errno) == [type |-> "error", errno |-> errno]
ReplyEntry(ttl, attr, generation) ==
    [type |-> "entry", ttl |-> ttl, attr |-> attr, generation |-> generation]
ReplyAttr(ttl, attr) == [type |-> "attr", ttl |-> ttl, attr |-> attr]
ReplyData(data) == [type |-> "data", data |-> data]
ReplyOpened(fh, flags) == [type |-> "opened", fh |-> fh, flags |-> flags]
ReplyOk == [type |-> "ok"]
ReplyDirectoryOk(buffer) == [type |-> "directory", entries |-> buffer]

\* A file name as the kernel passes it: a string, or bytes that are no UTF-8.
OsStr(s) == [utf8 |-> TRUE, str |-> s]
NonUtf8 == [utf8 |-> FALSE]
to_str(name) == IF name.utf8 THEN Some(name.str) ELSE None

\* The hash of a key under the hash state: HashMap::iter visits the keys in
\* the order of their buckets, which the hash state decides.
KeyOrder ==
    <<"cfg1.yaml", "kube-system", "manifest.yaml", "default", "configmaps", "cfg2.yaml">>

Bucket(seed, key) ==
    LET at == CHOOSE i \in 1..Len(KeyOrder) : KeyOrder[i] = key
    IN  IF seed = 0 THEN at ELSE Len(KeyOrder) + 1 - at

RECURSIVE IterFrom(_, _, _)
IterFrom(seed, keys, b) ==
    IF keys = {} THEN <<>>
    ELSE LET here == {k \in keys : Bucket(seed, k) = b}
         IN  IF here = {} THEN IterFrom(seed, keys, b + 1)
             ELSE LET k == CHOOSE x \in here : TRUE
                  IN  <<k>> \o IterFrom(seed, keys \ {k}, b + 1)

\* HashMap::iter: the keys of the map in iteration order.
Iter(seed, m) == IterFrom(seed, DOMAIN m, 1)

\* Mutant of lookup_replies: a parent that is a regular file is a type error.
lookup_replies_enotdir(tbl, parent, name) ==
    LET child_node ==
            IF parent \notin DOMAIN tbl THEN None
            ELSE IF tbl[parent].content.tag = "Children"
            THEN LET child_name == to_str(name)
                 IN  IF ~child_name.some THEN None
                     ELSE LET child_inode == MapGet(tbl[parent].content.children,
                                                    child_name.val)
                          IN  IF ~child_inode.some THEN None
                              ELSE MapGet(tbl, child_inode.val)
            ELSE None
    IN  IF child_node.some
        THEN <<ReplyEntry(TTL, child_node.val.attrs, 0)>>
        ELSE IF parent \in DOMAIN tbl /\ tbl[parent].content.tag = "Bytes"
        THEN <<ReplyError("ENOTDIR")>>
        ELSE <<ReplyError("ENOENT")>>

lookup_replies(tbl, parent, name) ==
    LET child_node ==
            IF parent \notin DOMAIN tbl THEN None
            ELSE IF tbl[parent].content.tag = "Children"
            THEN LET child_name == to_str(name)
                 IN  IF ~child_name.some THEN None
                     ELSE LET child_inode == MapGet(tbl[parent].content.children,
                                                    child_name.val)
                          IN  IF ~child_inode.some THEN None
                              ELSE MapGet(tbl, child_inode.val)
            ELSE None
    IN  IF child_node.some
        THEN <<ReplyEntry(TTL, child_node.val.attrs, 0)>>
        ELSE <<ReplyError("ENOENT")>>

getattr_replies(tbl, ino) ==
    IF ino \in DOMAIN tbl
    THEN <<ReplyAttr(TTL, tbl[ino].attrs)>>
    ELSE <<ReplyError("ENOENT")>>

RECURSIVE push_children(_, _, _, _)
\* The loop that pushes one entry per child found in the table.
push_children(tbl, children, order, entries) ==
    IF order = <<>> THEN entries
    ELSE LET inode == children[Head(order)]
         IN  push_children(tbl, children, Tail(order),
                 IF inode \in DOMAIN tbl
                 THEN Append(entries, [ino |-> inode, kind |-> tbl[inode].attrs.kind,
                                       name |-> tbl[inode].name])
                 ELSE entries)

\* Mutant of readdir_entries: ".." carries the directory's own inode.
readdir_entries_self_parent(tbl, seed, inode) ==
    push_children(tbl, tbl[inode].content.children,
                  Iter(seed, tbl[inode].content.children),
                  <<[ino |-> inode, kind |-> "Directory", name |-> "."],
                    [ino |-> inode, kind |-> "Directory", name |-> ".."]>>)

\* The entry list readdir synthesizes for a directory node.
readdir_entries(tbl, seed, inode) ==
    push_children(tbl, tbl[inode].content.children,
                  Iter(seed, tbl[inode].content.children),
                  <<[ino |-> inode, kind |-> "Directory", name |-> "."],
                    [ino |-> 1, kind |-> "Directory", name |-> ".."]>>)

\* ReplyDirectory::add: TRUE (and nothing added) when the buffer is full.
reply_add(buffer, capacity, ino, offset, kind, name) ==
    IF Len(buffer) >= capacity
    THEN [full |-> TRUE, buffer |-> buffer]
    ELSE [full |-> FALSE,
          buffer |-> Append(buffer, [ino |-> ino, offset |-> offset,
                                     kind |-> kind, name |-> name])]

RECURSIVE fill_buffer_relative(_, _, _, _, _)
\* Mutant of fill_buffer: the offset attached to an entry counts from the
\* start of this call, not of the list.
fill_buffer_relative(entries, offset, i, buffer, capacity) ==
    IF offset + i >= Len(entries) THEN buffer
    ELSE LET entry == entries[offset + i + 1]
             r == reply_add(buffer, capacity, entry.ino, i + 1, entry.kind, entry.name)
         IN  IF r.full THEN r.buffer
             ELSE fill_buffer_relative(entries, offset, i + 1, r.buffer, capacity)

RECURSIVE fill_buffer(_, _, _, _, _)
\* The loop over entries.skip(offset).enumerate(): i counts from 0.
fill_buffer(entries, offset, i, buffer, capacity) ==
    IF offset + i >= Len(entries) THEN buffer
    ELSE LET entry == entries[offset + i + 1]
             r == reply_add(buffer, capacity, entry.ino, offset + i + 1,
                            entry.kind, entry.name)
         IN  IF r.full THEN r.buffer
             ELSE fill_buffer(entries, offset, i + 1, r.buffer, capacity)

\* Mutant of readdir_replies: the kind is checked only for a listing from the
\* start.
readdir_replies_unchecked_resume(tbl, seed, inode, offset, capacity) ==
    IF inode \notin DOMAIN tbl THEN <<ReplyError("ENOENT")>>
    ELSE IF offset = 0 /\ tbl[inode].attrs.kind # "Directory" THEN <<ReplyError("ENOTDIR")>>
    ELSE IF offset = 0 \/ tbl[inode].content.tag = "Children"
    THEN <<ReplyDirectoryOk(fill_buffer(readdir_entries(tbl, seed, inode),
                                        offset, 0, <<>>, capacity))>>
    ELSE <<ReplyDirectoryOk(<<>>)>>

readdir_replies(tbl, seed, inode, offset, capacity) ==
    IF inode \notin DOMAIN tbl THEN <<ReplyError("ENOENT")>>
    ELSE IF tbl[inode].attrs.kind # "Directory" THEN <<ReplyError("ENOTDIR")>>
    ELSE IF tbl[inode].content.tag = "Children"
    THEN <<ReplyDirectoryOk(fill_buffer(readdir_entries(tbl, seed, inode),
                                        offset, 0, <<>>, capacity))>>
    ELSE <<ReplyError("ENOTDIR")>>

Min(a, b) == IF a <= b THEN a ELSE b

\* Mutant of read_replies: a read at or past the end of the content sends
\* nothing.
read_replies_silent_at_end(tbl, ino, offset, size) ==
    IF ino \notin DOMAIN tbl THEN <<ReplyError("ENOENT")>>
    ELSE IF tbl[ino].attrs.kind # "RegularFile" THEN <<ReplyError("EISDIR")>>
    ELSE IF tbl[ino].content.tag = "Bytes"
    THEN LET data == tbl[ino].content.bytes
             start == offset
             end == Min(start + size, Len(data))
         IN  IF start >= Len(data)
             THEN <<>>
             ELSE <<ReplyData(SubSeq(data, start + 1, end))>>
    ELSE <<>>

\* Mutant of read_replies: the end of the range is the size, not offset + size.
read_replies_end_is_size(tbl, ino, offset, size) ==
    IF ino \notin DOMAIN tbl THEN <<ReplyError("ENOENT")>>
    ELSE IF tbl[ino].attrs.kind # "RegularFile" THEN <<ReplyError("EISDIR")>>
    ELSE IF tbl[ino].content.tag = "Bytes"
    THEN LET data == tbl[ino].content.bytes
             start == offset
             end == Min(size, Len(data))
         IN  IF start >= Len(data)
             THEN <<ReplyData(<<>>)>>
             ELSE <<ReplyData(SubSeq(data, start + 1, end))>>
    ELSE <<>>

read_replies(tbl, ino, offset, size) ==
    IF ino \notin DOMAIN tbl THEN <<ReplyError("ENOENT")>>
    ELSE IF tbl[ino].attrs.kind # "RegularFile" THEN <<ReplyError("EISDIR")>>
    ELSE IF tbl[ino].content.tag = "Bytes"
    THEN LET data == tbl[ino].content.bytes
             start == offset
             end == Min(start + size, Len(data))
         IN  IF start >= Len(data)
             THEN <<ReplyData(<<>>)>>
             ELSE <<ReplyData(SubSeq(data, start + 1, end))>>
    ELSE <<>>

open_replies == <<ReplyOpened(0, 0)>>

release_replies == <<ReplyOk>>

\* The caller's enumeration of a directory: a readdir at offset 0 starts one,
\* a readdir of the same inode at the offset of the last entry delivered
\* continues it, and it has ended once a call delivers nothing.
ChainAfter(inode, offset, sent) ==
    LET ok == Len(sent) = 1 /\ sent[1].type = "directory"
        got == IF ok THEN sent[1].entries ELSE <<>>
        next == IF got = <<>> THEN offset ELSE got[Len(got)].offset
    IN  IF offset = 0
        THEN [active |-> TRUE, inode |-> inode, delivered |-> got, next |-> next,
              ok |-> ok, ended |-> got = <<>>, calls |-> 1]
        ELSE IF chain.active /\ ~chain.ended /\ chain.inode = inode /\ chain.next = offset
        THEN [active |-> TRUE, inode |-> inode, delivered |-> chain.delivered \o got,
              next |-> next, ok |-> chain.ok /\ ok, ended |-> got = <<>>,
              calls |-> chain.calls + 1]
        ELSE NoChain

\* The session serves one request at a time: it is idle until a request
\* arrives, and the replies of the call it handled are delivered before the
\* next request is taken.
Idle == pc = "mounted" /\ lastCall = NoCall

Handled(call, sent) ==
    /\ lastCall' = call
    /\ replies' = sent
    /\ UNCHANGED <<inodes, inode_counter, allocated, hasher, upstream, pc, idx, initResult>>

lookup(parent, name) ==
    /\ Idle
    /\ Handled([op |-> "lookup", parent |-> parent, name |-> name],
               lookup_replies(inodes, parent, name))
    /\ chain' = NoChain

getattr(ino) ==
    /\ Idle
    /\ Handled([op |-> "getattr", ino |-> ino], getattr_replies(inodes, ino))
    /\ chain' = NoChain

\* A readdir is a request of its own or the next call of the enumeration in
\* progress.
readdir(inode, offset, capacity) ==
    /\ \/ Idle
       \/ /\ pc = "mounted"
          /\ chain.active /\ ~chain.ended
          /\ chain.inode = inode /\ chain.next = offset /\ offset > 0
    /\ Handled([op |-> "readdir", inode |-> inode, offset |-> offset,
                capacity |-> capacity],
               readdir_replies(inodes, hasher, inode, offset, capacity))
    /\ chain' = ChainAfter(inode, offset,
                           readdir_replies(inodes, hasher, inode, offset, capacity))

read(ino, offset, size) ==
    /\ Idle
    /\ Handled([op |-> "read", ino |-> ino, offset |-> offset, size |-> size],
               read_replies(inodes, ino, offset, size))
    /\ chain' = NoChain

\* Mutant of open: the handler counts the open in the filesystem's counter.
open_counting(ino) ==
    /\ Idle
    /\ lastCall' = [op |-> "open", ino |-> ino]
    /\ replies' = open_replies
    /\ inode_counter' = inode_counter + 1
    /\ chain' = NoChain
    /\ UNCHANGED <<inodes, allocated, hasher, upstream, pc, idx, initResult>>

open(ino) ==
    /\ Idle
    /\ Handled([op |-> "open", ino |-> ino], open_replies)
    /\ chain' = NoChain

release(ino) ==
    /\ Idle
    /\ Handled([op |-> "release", ino |-> ino], release_replies)
    /\ chain' = NoChain

\* The replies of the call handled last reach the caller; the session takes
\* the next request.
Deliver ==
    /\ pc = "mounted"
    /\ lastCall # NoCall
    /\ lastCall' = NoCall
    /\ replies' = <<>>
    /\ chain' = NoChain
    /\ UNCHANGED <<inodes, inode_counter, allocated, hasher, upstream, pc, idx, initResult>>

\* The arguments the calls are issued with: every inode of the table and one
\* that is not, the names the tree can hold, one it cannot and one that is no
\* UTF-8; offsets are file and directory positions, never negative.
InodeArgs == 1..inode_counter
NameArgs ==
    {OsStr(k) : k \in {KeyOrder[i] : i \in 1..Len(KeyOrder)} \cup {"missing"}}
    \cup {NonUtf8}
OffsetArgs == 0..MaxOffset
SizeArgs == 0..MaxSize
CapacityArgs == 1..MaxCapacity

NextBuild == InitList \/ InitNamespace \/ InitReturn

InitBuild == Fresh(Upstreams(NamespaceObjects, ConfigMapObjects, MaxObjects))

SpecBuild == InitBuild /\ [][NextBuild]_vars

Next ==
    \/ InitList
    \/ InitNamespace
    \/ InitReturn
    \/ \E parent \in InodeArgs, name \in NameArgs : lookup(parent, name)
    \/ \E ino \in InodeArgs : getattr(ino)
    \/ \E inode \in InodeArgs, offset \in OffsetArgs, capacity \in CapacityArgs :
          readdir(inode, offset, capacity)
    \/ \E ino \in InodeArgs, offset \in OffsetArgs, size \in SizeArgs :
          read(ino, offset, size)
    \/ \E ino \in InodeArgs : open(ino)
    \/ \E ino \in InodeArgs : release(ino)
    \/ Deliver

Init == Fresh(Upstreams(MountedNamespaceObjects, ConfigMapObjects, MaxMountedObjects))

Spec == Init /\ [][Next]_vars

\* The tasks that call the allocator beside init.
Tasks == 1..MaxTasks

TaskCalls == {i \in 1..Len(allocated) : allocated[i].caller \in Tasks}

\* One call of next_inode(&self) by a task, while the tree is populated: the
\* method takes a shared reference, and its fetch_add is a single atomic step
\* on the counter init allocates from.
NextInode(task) ==
    /\ pc \in {"new", "loop"}
    /\ Cardinality(TaskCalls) < MaxAllocations
    /\ LET r == next_inode([inodes |-> inodes, inode_counter |-> inode_counter,
                            caller |-> task, allocated |-> allocated])
       IN  /\ inode_counter' = r.fs.inode_counter
           /\ allocated' = r.fs.allocated
    /\ UNCHANGED <<inodes, hasher, upstream, pc, idx, initResult, lastCall, replies, chain>>

\* init with tasks that allocate inodes concurrently.
NextAlloc ==
    \/ InitList
    \/ InitNamespace
    \/ InitReturn
    \/ \E task \in Tasks : NextInode(task)

SpecAlloc == Init /\ [][NextAlloc]_vars


-----------------------------------------------------------------------------
(* Properties.                                                             *)

Mounted == pc = "mounted"

IsDirectory(ino) == ino \in DOMAIN inodes /\ inodes[ino].content.tag = "Children"
IsFile(ino) == ino \in DOMAIN inodes /\ inodes[ino].content.tag = "Bytes"
ChildrenOf(ino) == inodes[ino].content.children

NsItems == IF upstream.namespaces.ok THEN upstream.namespaces.val ELSE <<>>
Named(obj) == obj.metadata.name.some
NameOf(obj) == obj.metadata.name.val

\* The positions of the namespace list whose configmap list request fails.
FailedLists == {i \in 1..Len(NsItems) : Named(NsItems[i]) /\ ~upstream.configmaps[i].ok}

\* The last position of the namespace list that carries the name of position i.
LastOf(i) ==
    CHOOSE j \in i..Len(NsItems) :
        /\ Named(NsItems[j]) /\ NameOf(NsItems[j]) = NameOf(NsItems[i])
        /\ \A k \in (j + 1)..Len(NsItems) :
              ~(Named(NsItems[k]) /\ NameOf(NsItems[k]) = NameOf(NsItems[i]))

Succeeded(sent) == Len(sent) >= 1 /\ \E i \in 1..Len(sent) : sent[i].type # "error"

\* C1: if the namespace list request fails, init returns EIO and afterwards
\* no lookup, getattr or readdir call succeeds on any inode, the root
\* included: there is no partial root to query.
C1_FailedInitIsUnqueryable ==
    (Mounted /\ ~upstream.namespaces.ok) =>
        /\ initResult = Err("EIO")
        /\ lastCall.op \in {"lookup", "getattr", "readdir"} => ~Succeeded(replies)

\* C2: if the configmap list request of a named namespace fails, then after
\* init that namespace's directory has no child named configmaps and the
\* table holds no configmaps directory node for it.
C2_FailedListLeavesNoSubtree ==
    Mounted =>
        \A i \in FailedLists :
            LastOf(i) = i =>
                LET ns_inode == ChildrenOf(1)[NameOf(NsItems[i])]
                IN  /\ "configmaps" \notin DOMAIN ChildrenOf(ns_inode)
                    /\ ~\E ino \in DOMAIN inodes :
                          /\ inodes[ino].name = "configmaps"
                          /\ \E k \in DOMAIN ChildrenOf(ns_inode) :
                                ChildrenOf(ns_inode)[k] = ino

\* The tree holds the namespace of position j: a directory under the root
\* with a manifest.yaml that serializes the namespace object.
Registered(j) ==
    LET name == NameOf(NsItems[j])
    IN  /\ name \in DOMAIN ChildrenOf(1)
        /\ LET ns_inode == ChildrenOf(1)[name]
           IN  /\ IsDirectory(ns_inode)
               /\ inodes[ns_inode].name = name
               /\ "manifest.yaml" \in DOMAIN ChildrenOf(ns_inode)
               /\ LET m == ChildrenOf(ns_inode)["manifest.yaml"]
                  IN  /\ IsFile(m)
                      /\ inodes[m].content.bytes =
                            unwrap_or_default(serde_yaml_to_string(NsItems[j]))

\* The tree holds a file for every named configmap that the list request of
\* position j returned.
HasConfigMapFiles(j) ==
    LET ns_inode == ChildrenOf(1)[NameOf(NsItems[j])]
        items == upstream.configmaps[j].val
    IN  /\ "configmaps" \in DOMAIN ChildrenOf(ns_inode)
        /\ LET dir == ChildrenOf(ns_inode)["configmaps"]
           IN  /\ IsDirectory(dir)
               /\ \A c \in 1..Len(items) :
                     Named(items[c]) =>
                        LET key == NameOf(items[c]) \o ".yaml"
                        IN  /\ key \in DOMAIN ChildrenOf(dir)
                            /\ IsFile(ChildrenOf(dir)[key])
                            /\ inodes[ChildrenOf(dir)[key]].content.bytes =
                                  unwrap_or_default(serde_yaml_to_string(items[c]))

\* C3: a failed configmap list is not fatal: init returns success and every
\* other named namespace of the list, before or after the failing one, is
\* registered under the root with its manifest.yaml and, when its own list
\* request succeeds, with its configmap files.  (Objects of one name are one
\* object here, so a name decides the content.)
C3_FailedListIsNotFatal ==
    (Mounted /\ FailedLists # {}) =>
        /\ initResult = Ok(<<>>)
        /\ \A f \in FailedLists :
              \A j \in 1..Len(NsItems) :
                 (j # f /\ Named(NsItems[j])) =>
                    /\ Registered(j)
                    /\ (LastOf(j) = j /\ upstream.configmaps[j].ok) => HasConfigMapFiles(j)

C3_Witness ==
    /\ Mounted
    /\ \E f \in FailedLists :
          \E j \in 1..Len(NsItems) :
             /\ j > f
             /\ Named(NsItems[j])
             /\ NameOf(NsItems[j]) # NameOf(NsItems[f])
             /\ upstream.configmaps[j].ok
             /\ \E c \in 1..Len(upstream.configmaps[j].val) :
                   Named(upstream.configmaps[j].val[c])

\* C4: once init has returned, with success or with an error, every inode in
\* the children map of every directory node is a key of the table.
C4_NoDanglingChildren ==
    Mounted =>
        \A d \in DOMAIN inodes :
            IsDirectory(d) =>
                \A k \in DOMAIN ChildrenOf(d) : ChildrenOf(d)[k] \in DOMAIN inodes

C4_Witness ==
    /\ Mounted
    /\ FailedLists # {}
    /\ \E i \in 1..Len(NsItems) :
          /\ Named(NsItems[i])
          /\ upstream.configmaps[i].ok
          /\ \E c \in 1..Len(upstream.configmaps[i].val) :
                Named(upstream.configmaps[i].val[c])

\* C5: from the moment init has created it, through every step of the build
\* and in every state in which a protocol operation can run, inode 1 is in
\* the table and is the root directory: a directory with a children map,
\* never a regular file, never replaced by another node.
C5_RootIsADirectory ==
    pc \in {"loop", "mounted"} =>
        /\ 1 \in DOMAIN inodes
        /\ inodes[1].attrs.kind = "Directory"
        /\ inodes[1].content.tag = "Children"
        /\ inodes[1].name = "/"
        /\ inodes[1].attrs.ino = 1

C5_Witness ==
    /\ Mounted
    /\ lastCall.op = "getattr"
    /\ lastCall.ino = 1
    /\ Cardinality(DOMAIN ChildrenOf(1)) = 2

\* C6: every regular-file node, the empty ones of a failed serialization
\* included, has attrs.size equal to the byte length of its content and
\* attrs.blocks equal to the ceiling of size / 512.
C6_SizeAndBlocks ==
    \A f \in DOMAIN inodes :
        inodes[f].attrs.kind = "RegularFile" =>
            /\ inodes[f].content.tag = "Bytes"
            /\ inodes[f].attrs.size = Len(inodes[f].content.bytes)
            /\ inodes[f].attrs.blocks * 512 >= inodes[f].attrs.size
            /\ inodes[f].attrs.blocks >= 0
            /\ inodes[f].attrs.blocks > 0 =>
                  (inodes[f].attrs.blocks - 1) * 512 < inodes[f].attrs.size

C6_Witness ==
    /\ Mounted
    /\ \E f \in DOMAIN inodes : IsFile(f) /\ inodes[f].attrs.size = 0
    /\ \E f \in DOMAIN inodes : IsFile(f) /\ inodes[f].attrs.size > 512
    /\ \E f \in DOMAIN inodes : IsFile(f) /\ inodes[f].attrs.size \in 1..511

\* C7: after init no protocol operation changes the inode table or the
\* inode counter, whatever the order and the number of the calls.
C7_ReadPathIsImmutable ==
    [][Mounted => (inodes' = inodes /\ inode_counter' = inode_counter)]_vars

C7_Witness ==
    /\ lastCall.op = "open"
    /\ initResult = Ok(<<>>)
    /\ Cardinality(DOMAIN inodes) > 3

\* C8: every protocol call issued after init, on any inode, known or not,
\* sends exactly one reply.
C8_ExactlyOneReply ==
    lastCall # NoCall => Len(replies) = 1

C8_Witness ==
    /\ lastCall.op = "read"
    /\ IsFile(lastCall.ino)
    /\ lastCall.offset >= Len(inodes[lastCall.ino].content.bytes)
    /\ lastCall.size > 0
    /\ replies = <<ReplyData(<<>>)>>

\* What one readdir call at offset 0 with a buffer that never fills delivers.
Unbounded == Cardinality(DOMAIN inodes) + 2
Listing(d) == readdir_replies(inodes, hasher, d, 0, Unbounded)[1].entries

\* C9: an enumeration of a directory that starts at offset 0 and passes, on
\* each next call, the offset of the last entry delivered, whatever the
\* buffer capacity of each call (at least one entry), delivers the entries of
\* a single unbounded call once each and in the same order; every call
\* succeeds, and the call that delivers nothing comes when all were delivered.
C9_ResumableReaddir ==
    (chain.active /\ IsDirectory(chain.inode)) =>
        /\ chain.ok
        /\ Len(chain.delivered) <= Len(Listing(chain.inode))
        /\ chain.delivered = SubSeq(Listing(chain.inode), 1, Len(chain.delivered))
        /\ chain.ended => chain.delivered = Listing(chain.inode)

C9_Witness ==
    /\ chain.active
    /\ chain.ended
    /\ chain.calls >= 4
    /\ Len(chain.delivered) = 4
    /\ lastCall.capacity = 1

\* C10: readdir at offset 0 with a buffer that does not fill yields, for a
\* directory d, 2 + (number of children of d) entries: "." with inode d,
\* ".." with inode 1, then one entry per child with the child's inode, file
\* type and name.
C10_ReaddirListsEveryChild ==
    (/\ lastCall.op = "readdir"
     /\ lastCall.offset = 0
     /\ IsDirectory(lastCall.inode)
     /\ lastCall.capacity >= 2 + Cardinality(DOMAIN ChildrenOf(lastCall.inode))) =>
        /\ Len(replies) = 1
        /\ replies[1].type = "directory"
        /\ LET d == lastCall.inode
               got == replies[1].entries
               n == Cardinality(DOMAIN ChildrenOf(d))
           IN  /\ Len(got) = 2 + n
               /\ got[1].ino = d /\ got[1].name = "." /\ got[1].kind = "Directory"
               /\ got[2].ino = 1 /\ got[2].name = ".." /\ got[2].kind = "Directory"
               /\ \A k \in DOMAIN ChildrenOf(d) :
                     Cardinality({i \in 3..Len(got) :
                                    /\ got[i].name = k
                                    /\ got[i].ino = ChildrenOf(d)[k]
                                    /\ got[i].kind = inodes[ChildrenOf(d)[k]].attrs.kind}) = 1

C10_Witness ==
    /\ lastCall.op = "readdir"
    /\ lastCall.offset = 0
    /\ lastCall.inode = 1
    /\ Cardinality(DOMAIN ChildrenOf(1)) = 2
    /\ Len(replies[1].entries) = 4

\* The position at which a key first entered a children map, given the keys in
\* the order of their insertion.
FirstAt(keys, k) == CHOOSE i \in 1..Len(keys) : keys[i] = k /\ \A j \in 1..(i - 1) : keys[j] # k

\* The keys the builder inserted into the children map of directory d, in the
\* order of insertion: the named namespaces for the root, manifest.yaml and
\* configmaps for a namespace, the named configmaps for a configmaps directory.
RECURSIVE NamesOf(_)
NamesOf(items) ==
    IF items = <<>> THEN <<>>
    ELSE IF Named(Head(items)) THEN <<NameOf(Head(items))>> \o NamesOf(Tail(items))
    ELSE NamesOf(Tail(items))

RECURSIVE WithYaml(_)
WithYaml(names) ==
    IF names = <<>> THEN <<>> ELSE <<Head(names) \o ".yaml">> \o WithYaml(Tail(names))

\* The position of the namespace list whose build created directory d, or 0.
OwnerOf(d) ==
    IF \E j \in 1..Len(NsItems) :
           /\ Named(NsItems[j]) /\ LastOf(j) = j
           /\ "configmaps" \in DOMAIN ChildrenOf(ChildrenOf(1)[NameOf(NsItems[j])])
           /\ ChildrenOf(ChildrenOf(1)[NameOf(NsItems[j])])["configmaps"] = d
    THEN CHOOSE j \in 1..Len(NsItems) :
           /\ Named(NsItems[j]) /\ LastOf(j) = j
           /\ "configmaps" \in DOMAIN ChildrenOf(ChildrenOf(1)[NameOf(NsItems[j])])
           /\ ChildrenOf(ChildrenOf(1)[NameOf(NsItems[j])])["configmaps"] = d
    ELSE 0

BuildOrder(d) ==
    IF d = 1 THEN NamesOf(NsItems)
    ELSE IF inodes[d].name = "configmaps"
    THEN IF OwnerOf(d) # 0 /\ upstream.configmaps[OwnerOf(d)].ok
         THEN WithYaml(NamesOf(upstream.configmaps[OwnerOf(d)].val))
         ELSE <<>>
    ELSE <<"manifest.yaml", "configmaps">>

\* C11: the child entries readdir lists after "." and ".." come in build
\* order: the order in which the upstream returned the namespaces or
\* configmaps and the builder inserted them into the children map.
C11_ChildrenInBuildOrder ==
    (/\ lastCall.op = "readdir"
     /\ IsDirectory(lastCall.inode)
     /\ Len(replies) = 1
     /\ replies[1].type = "directory"
     /\ \A k \in DOMAIN ChildrenOf(lastCall.inode) :
           \E i \in 1..Len(BuildOrder(lastCall.inode)) : BuildOrder(lastCall.inode)[i] = k) =>
        LET got == replies[1].entries
            order == BuildOrder(lastCall.inode)
        IN  \A a, b \in 1..Len(got) :
               (a < b /\ got[a].offset > 2) =>
                  FirstAt(order, got[a].name) < FirstAt(order, got[b].name)

\* C12: read on a regular file, with any offset (none negative) and any size,
\* is no error and returns the bytes of the content at the positions
\* [offset, min(offset + size, len)): nothing when offset >= len, the valid
\* prefix when the range runs past the end.
C12_ReadReturnsTheClippedRange ==
    (lastCall.op = "read" /\ IsFile(lastCall.ino)) =>
        /\ Len(replies) = 1
        /\ replies[1].type = "data"
        /\ LET data == inodes[lastCall.ino].content.bytes
               from == lastCall.offset
               to == IF lastCall.offset + lastCall.size <= Len(data)
                     THEN lastCall.offset + lastCall.size ELSE Len(data)
               got == replies[1].data
           IN  /\ Len(got) = (IF to > from THEN to - from ELSE 0)
               /\ \A k \in 1..Len(got) : got[k] = data[from + k]

C12_Witness ==
    /\ lastCall.op = "read"
    /\ IsFile(lastCall.ino)
    /\ lastCall.offset > 0
    /\ lastCall.offset + lastCall.size > Len(inodes[lastCall.ino].content.bytes)
    /\ replies[1].type = "data"
    /\ Len(replies[1].data) = 1

\* C13: whenever lookup(parent, name) succeeds, getattr on the inode number
\* carried in the attributes it returned succeeds and returns the same
\* attributes with the same cache validity of one second.
C13_GetattrAgreesWithLookup ==
    /\ (lastCall.op = "lookup" /\ Succeeded(replies)) =>
          /\ replies[1].type = "entry"
          /\ replies[1].ttl = 1
          /\ getattr_replies(inodes, replies[1].attr.ino) =
                <<[type |-> "attr", ttl |-> replies[1].ttl, attr |-> replies[1].attr]>>
    /\ (lastCall.op = "getattr" /\ lastCall.ino \in DOMAIN inodes) =>
          replies = <<[type |-> "attr", ttl |-> 1, attr |-> inodes[lastCall.ino].attrs]>>

C13_Witness ==
    /\ lastCall.op = "lookup"
    /\ lastCall.parent # 1
    /\ Succeeded(replies)
    /\ replies[1].attr.kind = "RegularFile"

\* C14: lookup(parent, name) replies ENOENT exactly when parent is not in the
\* table, or is a regular file, or has no child whose key equals name; in
\* every other case it replies with the attributes of the node the children
\* map binds to name.
C14_LookupNotFoundExactly ==
    lastCall.op = "lookup" =>
        LET parent == lastCall.parent
            name == lastCall.name
            notFound == \/ parent \notin DOMAIN inodes
                        \/ inodes[parent].content.tag = "Bytes"
                        \/ ~name.utf8
                        \/ name.str \notin DOMAIN ChildrenOf(parent)
        IN  IF notFound
            THEN replies = <<[type |-> "error", errno |-> "ENOENT"]>>
            ELSE /\ Len(replies) = 1
                 /\ replies[1].type = "entry"
                 /\ replies[1].attr = inodes[ChildrenOf(parent)[name.str]].attrs

C14_Witness ==
    /\ lastCall.op = "lookup"
    /\ IsFile(lastCall.parent)
    /\ lastCall.name = OsStr("manifest.yaml")
    /\ replies = <<[type |-> "error", errno |-> "ENOENT"]>>

\* C15: an operation on an existing node of the wrong type fails with the
\* type error and returns no data: readdir on a regular file replies ENOTDIR
\* for every offset, read on a directory replies EISDIR for every offset and
\* size.
C15_WrongTypeIsAnError ==
    /\ (lastCall.op = "readdir" /\ IsFile(lastCall.inode)) =>
          replies = <<[type |-> "error", errno |-> "ENOTDIR"]>>
    /\ (lastCall.op = "read" /\ IsDirectory(lastCall.ino)) =>
          replies = <<[type |-> "error", errno |-> "EISDIR"]>>

C15_Witness ==
    /\ lastCall.op = "readdir"
    /\ IsFile(lastCall.inode)
    /\ lastCall.offset > 0
    /\ replies = <<[type |-> "error", errno |-> "ENOTDIR"]>>

\* The configmaps directory of the namespace of position j.
ConfigMapsDir(j) == ChildrenOf(ChildrenOf(1)[NameOf(NsItems[j])])["configmaps"]

NamedIn(items) == {i \in 1..Len(items) : Named(items[i])}
DistinctNames(items) ==
    \A a, b \in NamedIn(items) : a # b => NameOf(items[a]) # NameOf(items[b])

\* The nodes the build of position j creates: the namespace directory, its
\* manifest, its configmaps directory and one file per named configmap.
NodesOf(j) ==
    IF ~Named(NsItems[j]) THEN 0
    ELSE 3 + (IF upstream.configmaps[j].ok
              THEN Cardinality(NamedIn(upstream.configmaps[j].val)) ELSE 0)

RECURSIVE NodesUpTo(_)
NodesUpTo(j) == IF j = 0 THEN 0 ELSE NodesOf(j) + NodesUpTo(j - 1)

\* C16: upstream entries without a name are skipped and never make init
\* fail: a nameless namespace adds no node under the root (and none to the
\* table), a nameless configmap adds no file, so that a configmap list of k
\* named items with distinct names and any number of nameless ones gives a
\* configmaps directory of exactly k children.
C16_NamelessEntriesAreSkipped ==
    (Mounted /\ upstream.namespaces.ok) =>
        /\ initResult = Ok(<<>>)
        /\ DOMAIN ChildrenOf(1) = {NameOf(NsItems[j]) : j \in NamedIn(NsItems)}
        /\ Cardinality(DOMAIN inodes) = 1 + NodesUpTo(Len(NsItems))
        /\ \A j \in NamedIn(NsItems) :
              (/\ LastOf(j) = j
               /\ upstream.configmaps[j].ok
               /\ DistinctNames(upstream.configmaps[j].val)) =>
                 /\ Cardinality(DOMAIN ChildrenOf(ConfigMapsDir(j))) =
                       Cardinality(NamedIn(upstream.configmaps[j].val))
                 /\ \A k \in DOMAIN ChildrenOf(ConfigMapsDir(j)) :
                       IsFile(ChildrenOf(ConfigMapsDir(j))[k])

C16_Witness ==
    /\ Mounted
    /\ initResult = Ok(<<>>)
    /\ \E n \in 1..Len(NsItems) : ~Named(NsItems[n])
    /\ \E j \in NamedIn(NsItems) :
          /\ LastOf(j) = j
          /\ upstream.configmaps[j].ok
          /\ Len(upstream.configmaps[j].val) = 2
          /\ Cardinality(NamedIn(upstream.configmaps[j].val)) = 1
          /\ Cardinality(DOMAIN ChildrenOf(ConfigMapsDir(j))) = 1

\* What a chain of lookups from the root finds for a path: the inode of the
\* last segment, or 0 when a lookup fails.
RECURSIVE Resolve(_, _)
Resolve(from, path) ==
    IF path = <<>> THEN from
    ELSE LET sent == lookup_replies(inodes, from, OsStr(Head(path)))
         IN  IF Len(sent) = 1 /\ sent[1].type = "entry"
             THEN Resolve(sent[1].attr.ino, Tail(path))
             ELSE 0

IsFileWith(ino, bytes) ==
    /\ ino \in DOMAIN inodes
    /\ inodes[ino].attrs.kind = "RegularFile"
    /\ inodes[ino].content = [tag |-> "Bytes", bytes |-> bytes]
    /\ read_replies(inodes, ino, 0, Len(bytes) + 1) = <<[type |-> "data", data |-> bytes]>>

AllListsSucceeded ==
    /\ upstream.namespaces.ok
    /\ \A j \in NamedIn(NsItems) : upstream.configmaps[j].ok

\* C17: after a successful init in which every list request succeeded, for
\* every named namespace N and every named configmap C of N, successive
\* lookups from inode 1 find /N/manifest.yaml, a regular file holding the
\* serialization of N, and /N/configmaps/C.yaml, a regular file holding the
\* serialization of C.  (A name listed twice stands for its last listing.)
C17_PathsResolveToSerializations ==
    (Mounted /\ initResult = Ok(<<>>) /\ AllListsSucceeded) =>
        \A j \in NamedIn(NsItems) :
            LastOf(j) = j =>
                /\ IsFileWith(Resolve(1, <<NameOf(NsItems[j]), "manifest.yaml">>),
                              unwrap_or_default(serde_yaml_to_string(NsItems[j])))
                /\ \A c \in NamedIn(upstream.configmaps[j].val) :
                      IsFileWith(Resolve(1, <<NameOf(NsItems[j]), "configmaps",
                                             NameOf(upstream.configmaps[j].val[c]) \o ".yaml">>),
                                 unwrap_or_default(
                                     serde_yaml_to_string(upstream.configmaps[j].val[c])))

C17_Witness ==
    /\ Mounted
    /\ initResult = Ok(<<>>)
    /\ AllListsSucceeded
    /\ Len(NsItems) = 2
    /\ DistinctNames(NsItems)
    /\ \A j \in 1..Len(NsItems) :
          /\ Named(NsItems[j])
          /\ upstream.configmaps[j].val = <<CmCfg1>>
          /\ Resolve(1, <<NameOf(NsItems[j]), "configmaps", "cfg1.yaml">>) # 0

\* The namespaces init has registered so far.
RegisteredSoFar == {j \in NamedIn(NsItems) : j < idx}

\* C18: the root's link count starts at 2 and grows by exactly one with each
\* named namespace init registers, so after a successful init it is 2 plus
\* the number of named namespaces of the list; the link count of every other
\* directory stays 2 whatever children it receives.
C18_LinkCounts ==
    pc \in {"loop", "mounted"} =>
        /\ inodes[1].attrs.nlink = 2 + Cardinality(RegisteredSoFar)
        /\ (Mounted /\ initResult = Ok(<<>>)) =>
              inodes[1].attrs.nlink = 2 + Cardinality(NamedIn(NsItems))
        /\ \A d \in DOMAIN inodes :
              (d # 1 /\ inodes[d].attrs.kind = "Directory") => inodes[d].attrs.nlink = 2

C18_Witness ==
    /\ Mounted
    /\ initResult = Ok(<<>>)
    /\ Cardinality(NamedIn(NsItems)) = 2
    /\ Len(NsItems) = 3
    /\ inodes[1].attrs.nlink = 4
    /\ \E d \in DOMAIN inodes :
          d # 1 /\ IsDirectory(d) /\ Cardinality(DOMAIN ChildrenOf(d)) = 2

\* C20: in every state after init, for every node of the table, the file
\* type of its attributes agrees with the variant of its content, and the
\* inode of its attributes is the key it is stored under: Directory exactly
\* when the content is a children map, RegularFile exactly when it is bytes.
C20_KindAgreesWithContent ==
    Mounted =>
        \A i \in DOMAIN inodes :
            /\ inodes[i].attrs.kind \in {"Directory", "RegularFile"}
            /\ inodes[i].content.tag \in {"Children", "Bytes"}
            /\ inodes[i].attrs.kind = "Directory" <=> inodes[i].content.tag = "Children"
            /\ inodes[i].attrs.kind = "RegularFile" <=> inodes[i].content.tag = "Bytes"
            /\ inodes[i].attrs.ino = i

C20_Witness ==
    /\ Mounted
    /\ initResult = Ok(<<>>)
    /\ Cardinality({i \in DOMAIN inodes : inodes[i].content.tag = "Children"}) >= 3
    /\ Cardinality({i \in DOMAIN inodes : inodes[i].content.tag = "Bytes"}) >= 3
    /\ \E i \in DOMAIN inodes : inodes[i].attrs.size > BLOCK_SIZE

\* The inodes init was given, and the nodes it built with them.
InitInodes == {allocated[i].ino : i \in {k \in 1..Len(allocated) : allocated[k].caller = InitTask}}
BuiltNodes == DOMAIN inodes \ {1}

\* C19: the first call of the allocator returns 2 and every later call a
\* strictly larger value, whoever calls and however the calls of init and of
\* the tasks interleave; so no call returns the root's inode 1, no two calls
\* return the same value, and the nodes init builds have pairwise distinct
\* inodes: each inode init was given is the key and the attribute of exactly
\* one node, and of no node if a task was given it.
C19_AllocatorIsStrictlyIncreasing ==
    /\ Len(allocated) >= 1 => allocated[1].ino = 2
    /\ \A i, j \in 1..Len(allocated) : i < j => allocated[i].ino < allocated[j].ino
    /\ \A i \in 1..Len(allocated) : allocated[i].ino # 1
    /\ pc \in {"loop", "mounted"} =>
          /\ BuiltNodes = InitInodes
          /\ Cardinality(BuiltNodes) =
                Cardinality({k \in 1..Len(allocated) : allocated[k].caller = InitTask})
          /\ \A n \in BuiltNodes : inodes[n].attrs.ino = n

\* init and two tasks have interleaved their calls, and init has built a
\* tree with the inodes it was given.
C19_Witness ==
    /\ Mounted
    /\ initResult = Ok(<<>>)
    /\ Cardinality(TaskCalls) = MaxAllocations
    /\ Cardinality(BuiltNodes) >= 4
    /\ \E i, j, k, l \in 1..Len(allocated) :
          /\ i < j /\ j < k /\ k < l
          /\ allocated[i].caller = 1
          /\ allocated[j].caller = InitTask
          /\ allocated[k].caller = 2
          /\ allocated[l].caller = InitTask

====
